---- MODULE Spec2Model ----
(***************************************************************************)
(* Order ingestion, durable order queue and queue worker of oolio.         *)
(*                                                                         *)
(* Money is counted in units of 0.0001 so that price * quantity and        *)
(* total * percentage / 100 are exact integers (15.99 is 159900).          *)
(* created_at order of the queue table is the insertion order, that is the *)
(* index of a row in `queue`.                                              *)
(***************************************************************************)
EXTENDS Integers, Sequences, FiniteSets, TLC

VARIABLES
    queue,        \* table order_queue: sequence of rows, in created_at order
    orders,       \* table orders (with the number of order_items rows written)
    locked,       \* row ids locked by a SELECT ... FOR UPDATE still open
    origin,       \* per row of orders: the queue item whose realization wrote it
    validCoupons, \* couponService.validCoupons: code -> number of occurrences counted
    mutex,        \* couponService.mutex (sync.RWMutex)
    refresh,      \* position of DownloadAndParseCouponFiles
    reader,       \* a caller of ValidateCoupon and its position
    cycle,        \* the refresh cycle running or last run: what each source gave
    committed,    \* the sets left by the refresh cycles that ended, and the initial set
    pc,           \* worker -> position inside ProcessBatch / processQueueItem
    batch,        \* worker -> items of GetPendingItems not yet processed
    claimed,      \* worker -> ids returned by GetPendingItems of the running ProcessBatch
    resp,         \* last HTTP response of PlaceOrder
    lastBody,     \* request body of the last PlaceOrder
    submitted,    \* per queue row: the OrderReq as bound by the handler
    calls,        \* per queue row: number of OrderService.CreateOrder invocations
    dbFailures,   \* number of database errors injected so far
    cancelled,    \* the context given to StartWorker is cancelled
    dbOpen,       \* the *sql.DB handle is open
    http,         \* the HTTP server: "serving" or "stopped"
    signal,       \* SIGINT or SIGTERM was delivered
    panics,       \* number of panics raised inside item processing so far
    bucket,       \* key-value store: key -> hash {tokens, last_refill}
    clock,        \* time.Now() in units of half a window
    conn,         \* connection -> the request being served and its position
    decisions     \* the results of tokenBucketScript runs, in the order of the runs

vars == <<queue, orders, origin, locked, validCoupons, mutex, refresh, reader,
          cycle, committed, pc, batch, claimed, resp, lastBody, submitted, calls,
          dbFailures, cancelled, dbOpen, http, signal, panics, bucket, clock, conn,
          decisions>>

---------------------------------------------------------------------------
(* Bounds of the model *)

MaxItems == 2
NumWorkers == 2
BatchSize == 2
MaxDbFailures == 1
MaxCalls == 5
MaxCycles == 2
MaxPanics == 1
MaxTime == 4
MaxRequests == 4
NumConns == 2
Window == 2
ProductLimit == 3
OrderLimit == 2
QueueLimit == 1

(* Program constants *)

MaxRetries == 3
UUIDLen == 36
MinCouponLen == 8
MaxCouponLen == 10

Workers == 1 .. NumWorkers

Conns == 1 .. NumConns

---------------------------------------------------------------------------
(* Identifiers *)

\* uuid.New().String() of generateUUID: the n-th id handed out for the queue
QueueItemId(n) == "queue-" \o ToString(n)

\* id generated by the orders table (DEFAULT uuid_generate_v4())
OrderRowId(n) == "order-" \o ToString(n)

P1 == "550e8400-e29b-41d4-a716-446655440000"
P2 == "550e8400-e29b-41d4-a716-446655440001"
PMissing == "550e8400-e29b-41d4-a716-44665544ffff"
PShort == "550e8400-e29b-41d4-a716-44665544000"
PLong == "550e8400-e29b-41d4-a716-4466554400000"

\* table products: id -> price (seed rows Chicken Waffle, Classic Waffle)
Catalog == (P1 :> 159900) @@ (P2 :> 89900)

---------------------------------------------------------------------------
(* Go values *)

\* models.Order zero value, what json.Unmarshal("{}") leaves
ZeroOrder == [ID |-> "", Total |-> 0, Discounts |-> 0, Items |-> <<>>, Products |-> <<>>]

\* a nil *models.Order
NilOrder == [nil |-> TRUE]

\* sql.NullString
NullString == [Valid |-> FALSE, String |-> ""]
ValidString(s) == [Valid |-> TRUE, String |-> s]

\* a NULL jsonb column, scanned into an empty []byte
NullJson == [Valid |-> FALSE]
Json(doc) == [Valid |-> TRUE, doc |-> doc]

\* the JSON document {}
EmptyDoc == <<>>

---------------------------------------------------------------------------
(* encoding/json over the models (json tags of models.OrderReq, OrderItem, Order) *)

MarshalItem(it) == [productId |-> it.ProductID, quantity |-> it.Quantity, price |-> it.Price]

UnmarshalItem(d) ==
    [ProductID |-> IF "productId" \in DOMAIN d THEN d.productId ELSE "",
     Quantity  |-> IF "quantity" \in DOMAIN d THEN d.quantity ELSE 0,
     Price     |-> IF "price" \in DOMAIN d THEN d.price ELSE 0]

MarshalOrderReqDropsCoupon(r) ==
    [couponCode |-> "",
     items      |-> [i \in 1 .. Len(r.Items) |-> MarshalItem(r.Items[i])]]

MarshalOrderReq(r) ==
    [couponCode |-> r.CouponCode,
     items      |-> [i \in 1 .. Len(r.Items) |-> MarshalItem(r.Items[i])]]

UnmarshalOrderReq(d) ==
    [CouponCode |-> IF "couponCode" \in DOMAIN d THEN d.couponCode ELSE "",
     Items      |-> IF "items" \in DOMAIN d
                    THEN [i \in 1 .. Len(d.items) |-> UnmarshalItem(d.items[i])]
                    ELSE <<>>]

MarshalProduct(p) == [id |-> p.ID, price |-> p.Price]

UnmarshalProduct(d) ==
    [ID    |-> IF "id" \in DOMAIN d THEN d.id ELSE "",
     Price |-> IF "price" \in DOMAIN d THEN d.price ELSE 0]

MarshalOrder(o) ==
    [id        |-> o.ID,
     total     |-> o.Total,
     discounts |-> o.Discounts,
     items     |-> [i \in 1 .. Len(o.Items) |-> MarshalItem(o.Items[i])],
     products  |-> [i \in 1 .. Len(o.Products) |-> MarshalProduct(o.Products[i])]]

UnmarshalOrder(d) ==
    [ID        |-> IF "id" \in DOMAIN d THEN d.id ELSE "",
     Total     |-> IF "total" \in DOMAIN d THEN d.total ELSE 0,
     Discounts |-> IF "discounts" \in DOMAIN d THEN d.discounts ELSE 0,
     Items     |-> IF "items" \in DOMAIN d
                   THEN [i \in 1 .. Len(d.items) |-> UnmarshalItem(d.items[i])]
                   ELSE <<>>,
     Products  |-> IF "products" \in DOMAIN d
                   THEN [i \in 1 .. Len(d.products) |-> UnmarshalProduct(d.products[i])]
                   ELSE <<>>]

---------------------------------------------------------------------------
(* Request bodies.  A body is a JSON document, or text that is no JSON. *)

Malformed == [malformed |-> TRUE]

IsMalformed(b) == "malformed" \in DOMAIN b

BodyItem(p, q) == [productId |-> p, quantity |-> q, price |-> 0]

\* c.ShouldBindJSON(&orderReq): decode, then binding:"required" on Items
ShouldBindJSON(b) ==
    IF IsMalformed(b) THEN [ok |-> FALSE, req |-> UnmarshalOrderReq(EmptyDoc)]
    ELSE IF "items" \notin DOMAIN b THEN [ok |-> FALSE, req |-> UnmarshalOrderReq(b)]
    ELSE [ok |-> TRUE, req |-> UnmarshalOrderReq(b)]

---------------------------------------------------------------------------
(* Order Ingestion API: OrderHandler.PlaceOrder *)

\* the per-item checks of the loop, for one item: 0 when the item passes
CheckItemQuantityFirst(it) ==
    IF it.Quantity <= 0 THEN 422
    ELSE IF it.ProductID = "" \/ Len(it.ProductID) # UUIDLen THEN 400
    ELSE 0

CheckItem(it) ==
    IF it.ProductID = "" \/ Len(it.ProductID) # UUIDLen THEN 400
    ELSE IF it.Quantity <= 0 THEN 422
    ELSE 0

\* for _, item := range orderReq.Items: the first failing check returns
RECURSIVE ValidateItems(_)
ValidateItems(items) ==
    IF items = <<>> THEN 0
    ELSE IF CheckItem(Head(items)) # 0 THEN CheckItem(Head(items))
    ELSE ValidateItems(Tail(items))

\* status decided before the queue is touched; 0 when the request passes
ShapeStatus(b) ==
    LET bound == ShouldBindJSON(b) IN
    IF ~bound.ok THEN 400
    ELSE IF Len(bound.req.Items) = 0 THEN 400
    ELSE ValidateItems(bound.req.Items)

\* orderQueueRepository.AddToQueue: the inserted row (error, order_data stay NULL)
QueueRowStoresRetry(item) ==
    [id          |-> item.ID,
     order_req   |-> MarshalOrderReq(item.OrderReq),
     status      |-> item.Status,
     error       |-> NullString,
     order_data  |-> NullJson,
     retry_count |-> item.RetryCount + 1]

QueueRow(item) ==
    [id          |-> item.ID,
     order_req   |-> MarshalOrderReq(item.OrderReq),
     status      |-> item.Status,
     error       |-> NullString,
     order_data  |-> NullJson,
     retry_count |-> item.RetryCount]

\* orderQueueService.AddOrderToQueue: the new in-memory item
NewQueueItem(req, n) ==
    [ID |-> QueueItemId(n), OrderReq |-> req, Status |-> "pending",
     Error |-> "", Order |-> NilOrder, RetryCount |-> 0]

NoResponse == [code |-> 0, queueItemId |-> "", status |-> ""]

ErrorResponse(code) == [code |-> code, queueItemId |-> "", status |-> ""]

\* a call on a closed handle fails, and so does a call under the worker's
\* context once that context is cancelled
DbUsable == dbOpen /\ ~cancelled

\* a database call on a usable handle fails only while the failure budget lasts
DbOutcomes ==
    IF ~DbUsable THEN {FALSE}
    ELSE IF dbFailures < MaxDbFailures THEN {TRUE, FALSE} ELSE {TRUE}

CountFailure(ok) == dbFailures' = IF ok \/ ~DbUsable THEN dbFailures ELSE dbFailures + 1

WorkerVars == <<locked, pc, batch, claimed>>

LifeVars == <<cancelled, dbOpen, http, signal, panics>>

RateVars == <<bucket, clock, decisions>>

CouponVars == <<validCoupons, mutex, refresh, reader, cycle, committed>>

PlaceOrder(b) ==
    /\ http = "serving"
    /\ Len(queue) < MaxItems
    /\ lastBody' = b
    /\ IF ShapeStatus(b) # 0
       THEN /\ resp' = ErrorResponse(ShapeStatus(b))
            /\ UNCHANGED <<queue, submitted, calls, dbFailures>>
       ELSE \E ok \in DbOutcomes :
            LET req  == ShouldBindJSON(b).req
                item == NewQueueItem(req, Len(queue) + 1)
            IN  /\ CountFailure(ok)
                /\ IF ok
                   THEN /\ queue' = Append(queue, QueueRow(item))
                        /\ submitted' = Append(submitted, req)
                        /\ calls' = Append(calls, 0)
                        /\ resp' = [code |-> 202, queueItemId |-> item.ID,
                                    status |-> item.Status]
                   ELSE /\ resp' = ErrorResponse(500)
                        /\ UNCHANGED <<queue, submitted, calls>>
    /\ UNCHANGED <<orders, origin, CouponVars, WorkerVars, LifeVars, RateVars>>

---------------------------------------------------------------------------
(* Coupon Store: couponService *)

\* strings.ToUpper on the codes of the model
UpperTable ==
    ("happyhrs" :> "HAPPYHRS") @@ ("fiftyoff" :> "FIFTYOFF") @@ ("save10now" :> "SAVE10NOW")

ToUpper(code) == IF code \in DOMAIN UpperTable THEN UpperTable[code] ELSE code

ValidateCouponNoDemo(code) ==
    IF Len(code) < MinCouponLen \/ Len(code) > MaxCouponLen THEN FALSE
    ELSE code \in DOMAIN validCoupons

ValidateCouponIgnoresSnapshot(code) ==
    IF Len(code) < MinCouponLen \/ Len(code) > MaxCouponLen THEN FALSE
    ELSE TRUE

ValidateCoupon(code) ==
    IF Len(code) < MinCouponLen \/ Len(code) > MaxCouponLen THEN FALSE
    ELSE IF ToUpper(code) = "HAPPYHRS" \/ ToUpper(code) = "FIFTYOFF" THEN TRUE
    ELSE code \in DOMAIN validCoupons

GetDiscountPercentage(code) ==
    IF ~ValidateCoupon(code) THEN 0
    ELSE IF ToUpper(code) = "HAPPYHRS" THEN 10
    ELSE IF ToUpper(code) = "FIFTYOFF" THEN 50
    ELSE 5

\* NewCouponService: the three source files
CouponFiles == <<"couponbase1.gz", "couponbase2.gz", "couponbase3.gz">>

\* strings.TrimSpace on the rows of the model
TrimTable == ("SAVE10NOW " :> "SAVE10NOW") @@ ("   " :> "")

TrimSpace(row) == IF row \in DOMAIN TrimTable THEN TrimTable[row] ELSE row

\* s.validCoupons[code]++
Increment(m, code) ==
    IF code \in DOMAIN m THEN [m EXCEPT ![code] = @ + 1] ELSE m @@ (code :> 1)

\* parseCSVStream: every record's first field, trimmed, is counted when its
\* length is 8..10
RECURSIVE parseCSVStream(_, _)
parseCSVStream(m, records) ==
    IF records = <<>> THEN m
    ELSE LET code == TrimSpace(Head(records)) IN
         parseCSVStream(IF code # "" /\ Len(code) >= MinCouponLen /\ Len(code) <= MaxCouponLen
                        THEN Increment(m, code) ELSE m,
                        Tail(records))

\* what downloadAndParseFile can meet: the download or the gzip header fails
\* (nothing is counted), or the file is parsed to its end
DownloadFailed == <<"download failed">>

FileContents ==
    {<<"SAVE10NOW", "WELCOME15", "SHORT77">>,
     <<"SAVE10NOW ", "   ", "ELEVENCHARS", "SUMMER24", "BLACKFRI25">>,
     <<"WELCOME15", "WELCOME15">>}

FileOutcomes == FileContents \cup {DownloadFailed}

\* the loop "for code, count := range s.validCoupons" of DownloadAndParseCouponFiles
FilterCoupons(m) == [code \in {c \in DOMAIN m : m[c] >= 2} |-> m[code]]

\* sync.RWMutex: Lock waits for the readers to leave, and a Lock that waits
\* keeps new readers out
MutexFree == [writer |-> FALSE, pending |-> FALSE, readers |-> 0]

CanLock == ~mutex.writer /\ mutex.readers = 0

NoRequest == [pc |-> "free"]

CanRLockUnguarded == TRUE

CanRLock == ~mutex.writer /\ ~mutex.pending

RefreshIdle == [pc |-> "idle", file |-> 0]

NoCycle == [n |-> 0, before |-> {}, read |-> <<>>]

ReaderIdle == [pc |-> "idle", op |-> "", code |-> "", valid |-> FALSE, pct |-> 0, seen |-> {}]

QueueVars == <<queue, orders, origin, locked, pc, batch, claimed, resp, lastBody,
               submitted, calls, dbFailures, LifeVars, RateVars, conn>>

\* DownloadAndParseCouponFiles is called: s.mutex.Lock()
RefreshStart ==
    /\ refresh.pc = "idle"
    /\ cycle.n < MaxCycles
    /\ refresh' = [refresh EXCEPT !.pc = "lock"]
    /\ mutex' = [mutex EXCEPT !.pending = TRUE]
    /\ UNCHANGED <<validCoupons, reader, cycle, committed, QueueVars>>

\* s.mutex.Lock() returns
RefreshLock ==
    /\ refresh.pc = "lock"
    /\ CanLock
    /\ mutex' = [mutex EXCEPT !.writer = TRUE, !.pending = FALSE]
    /\ refresh' = [refresh EXCEPT !.pc = "reset"]
    /\ cycle' = [n |-> cycle.n + 1, before |-> DOMAIN validCoupons, read |-> <<>>]
    /\ UNCHANGED <<validCoupons, reader, committed, QueueVars>>

\* s.validCoupons = make(map[string]int)
RefreshReset ==
    /\ refresh.pc = "reset"
    /\ validCoupons' = <<>>
    /\ refresh' = [pc |-> "file", file |-> 1]
    /\ UNCHANGED <<mutex, reader, cycle, committed, QueueVars>>

\* one round of "for _, filename := range s.couponFiles"
RefreshFile ==
    /\ refresh.pc = "file"
    /\ \E out \in FileOutcomes :
         /\ validCoupons' = IF out = DownloadFailed THEN validCoupons
                            ELSE parseCSVStream(validCoupons, out)
         /\ cycle' = [cycle EXCEPT !.read = Append(@, out)]
    /\ refresh' = IF refresh.file = Len(CouponFiles) THEN [pc |-> "filter", file |-> 0]
                  ELSE [refresh EXCEPT !.file = @ + 1]
    /\ UNCHANGED <<mutex, reader, committed, QueueVars>>

\* codes counted less than twice are deleted
RefreshFilter ==
    /\ refresh.pc = "filter"
    /\ validCoupons' = FilterCoupons(validCoupons)
    /\ refresh' = [refresh EXCEPT !.pc = "unlock"]
    /\ UNCHANGED <<mutex, reader, cycle, committed, QueueVars>>

\* return nil: the deferred s.mutex.Unlock()
RefreshUnlock ==
    /\ refresh.pc = "unlock"
    /\ mutex' = [mutex EXCEPT !.writer = FALSE]
    /\ refresh' = RefreshIdle
    /\ committed' = committed \cup {DOMAIN validCoupons}
    /\ UNCHANGED <<validCoupons, reader, cycle, QueueVars>>

Refresh ==
    \/ RefreshStart
    \/ RefreshLock
    \/ RefreshReset
    \/ RefreshFile
    \/ RefreshFilter
    \/ RefreshUnlock

\* parseCSVStream meets a read error that is not io.EOF after the rows it could
\* read: a truncated or corrupt gzip stream, the byte cap of io.LimitReader inside
\* the compressed stream, or the body read failing after the per-file timeout.
\* The gzip reader returns that error on every later Read as well
RefreshReadError ==
    /\ refresh.pc = "file"
    /\ \E rows \in FileContents : validCoupons' = parseCSVStream(validCoupons, rows)
    /\ refresh' = [pc |-> "error", file |-> refresh.file]
    /\ UNCHANGED <<mutex, reader, cycle, committed, QueueVars>>

\* "if err != nil { fmt.Printf(Warning ...); continue }": the loop goes round
RefreshWarn ==
    /\ refresh.pc \in {"error", "again"}
    /\ refresh' = [refresh EXCEPT !.pc = "read"]
    /\ UNCHANGED <<validCoupons, mutex, reader, cycle, committed, QueueVars>>

\* csvReader.Read() is called again and returns the same error
RefreshReadAgain ==
    /\ refresh.pc = "read"
    /\ refresh' = [refresh EXCEPT !.pc = "again"]
    /\ UNCHANGED <<validCoupons, mutex, reader, cycle, committed, QueueVars>>

\* ValidateCoupon(code) or GetDiscountPercentage(code) is called: s.mutex.RLock()
ReadCall(op, code) ==
    /\ reader.pc \in {"idle", "done"}
    /\ reader' = [ReaderIdle EXCEPT !.pc = "rlock", !.op = op, !.code = code]
    /\ UNCHANGED <<validCoupons, mutex, refresh, cycle, committed, QueueVars>>

\* s.mutex.RLock() returns
ReadRLock ==
    /\ reader.pc = "rlock"
    /\ CanRLock
    /\ mutex' = [mutex EXCEPT !.readers = @ + 1]
    /\ reader' = [reader EXCEPT !.pc = "read"]
    /\ UNCHANGED <<validCoupons, refresh, cycle, committed, QueueVars>>

\* the body of the call and the deferred s.mutex.RUnlock()
ReadReturn ==
    /\ reader.pc = "read"
    /\ reader' = [reader EXCEPT !.pc = "done",
                                !.valid = ValidateCoupon(reader.code),
                                !.pct = IF reader.op \in {"GetDiscountPercentage",
                                                          "applyDiscount.GetDiscountPercentage"}
                                        THEN GetDiscountPercentage(reader.code) ELSE 0,
                                !.seen = DOMAIN validCoupons]
    /\ mutex' = [mutex EXCEPT !.readers = @ - 1]
    /\ UNCHANGED <<validCoupons, refresh, cycle, committed, QueueVars>>

ReadCodes == {"SAVE10NOW", "save10now", "HAPPYHRS"}

ReadOps == {"ValidateCoupon", "GetDiscountPercentage"}

Read ==
    \/ \E op \in ReadOps, code \in ReadCodes : ReadCall(op, code)
    \/ ReadRLock
    \/ ReadReturn

\* orderService.applyDiscount as the store sees it: its call of ValidateCoupon ...
ApplyDiscountValidate(code) ==
    /\ reader.pc \in {"idle", "done"}
    /\ reader' = [ReaderIdle EXCEPT !.pc = "rlock", !.op = "applyDiscount.ValidateCoupon",
                                    !.code = code]
    /\ UNCHANGED <<validCoupons, mutex, refresh, cycle, committed, QueueVars>>

\* ... and, when that returned true, its call of GetDiscountPercentage
ApplyDiscountPercentage ==
    /\ reader.pc = "done"
    /\ reader.op = "applyDiscount.ValidateCoupon"
    /\ reader.valid
    /\ reader' = [reader EXCEPT !.pc = "rlock", !.op = "applyDiscount.GetDiscountPercentage"]
    /\ UNCHANGED <<validCoupons, mutex, refresh, cycle, committed, QueueVars>>

---------------------------------------------------------------------------
(* Order realization: orderService.CreateOrder *)

Failure(msg) == [ok |-> FALSE, err |-> msg, val |-> 0]

Success(v) == [ok |-> TRUE, err |-> "", val |-> v]

RECURSIVE ValidateReqItems(_)
ValidateReqItems(items) ==
    IF items = <<>> THEN TRUE
    ELSE IF Head(items).ProductID = "" THEN FALSE
    ELSE IF Head(items).Quantity <= 0 THEN FALSE
    ELSE ValidateReqItems(Tail(items))

validateOrderReq(req) ==
    IF Len(req.Items) = 0 THEN Failure("order validation failed")
    ELSE IF ~ValidateReqItems(req.Items) THEN Failure("order validation failed")
    ELSE Success(0)

\* productRepository.FindOne: uuid.Parse, then GetProductByID
FindOne(id) ==
    IF Len(id) # UUIDLen THEN Failure("invalid product ID")
    ELSE IF id \notin DOMAIN Catalog THEN Failure("product not found")
    ELSE Success([ID |-> id, Price |-> Catalog[id]])

RECURSIVE getProductsForOrder(_)
getProductsForOrder(productIDs) ==
    IF productIDs = <<>> THEN Success(<<>>)
    ELSE LET first == FindOne(Head(productIDs)) IN
         IF ~first.ok THEN Failure("failed to get products for order")
         ELSE LET rest == getProductsForOrder(Tail(productIDs)) IN
              IF ~rest.ok THEN rest ELSE Success(<<first.val>> \o rest.val)

\* productPrices[product.ID] = product.Price over the fetched products
ProductPrices(products) ==
    [id \in {products[i].ID : i \in 1 .. Len(products)} |->
        products[CHOOSE i \in 1 .. Len(products) : products[i].ID = id /\
            \A j \in 1 .. Len(products) : products[j].ID = id => j <= i].Price]

RECURSIVE SumItems(_, _)
SumItems(items, prices) ==
    IF items = <<>> THEN 0
    ELSE prices[Head(items).ProductID] * Head(items).Quantity + SumItems(Tail(items), prices)

calculateOrderTotalIgnoresQuantity(items, products) ==
    IF \E i \in 1 .. Len(items) : items[i].ProductID \notin DOMAIN ProductPrices(products)
    THEN Failure("failed to calculate order total")
    ELSE Success(SumItems([i \in 1 .. Len(items) |->
                              [items[i] EXCEPT !.Quantity = 1]], ProductPrices(products)))

calculateOrderTotal(items, products) ==
    IF \E i \in 1 .. Len(items) : items[i].ProductID \notin DOMAIN ProductPrices(products)
    THEN Failure("failed to calculate order total")
    ELSE Success(SumItems(items, ProductPrices(products)))

applyDiscountTenfold(total, couponCode) ==
    IF ~ValidateCoupon(couponCode) THEN Failure("failed to apply discount")
    ELSE LET pct == GetDiscountPercentage(couponCode) IN
         IF pct <= 0 \/ pct > 100 THEN Failure("failed to apply discount")
         ELSE Success((total * pct) \div 10)

applyDiscount(total, couponCode) ==
    IF ~ValidateCoupon(couponCode) THEN Failure("failed to apply discount")
    ELSE LET pct == GetDiscountPercentage(couponCode) IN
         IF pct <= 0 \/ pct > 100 THEN Failure("failed to apply discount")
         ELSE Success((total * pct) \div 100)

\* CreateOrder up to the order value handed to orderRepo.Create (ID not yet set)
BuildOrder(req) ==
    LET valid == validateOrderReq(req) IN
    IF ~valid.ok THEN valid
    ELSE LET products == getProductsForOrder(
                             [i \in 1 .. Len(req.Items) |-> req.Items[i].ProductID]) IN
    IF ~products.ok THEN products
    ELSE LET total == calculateOrderTotal(req.Items, products.val) IN
    IF ~total.ok THEN total
    ELSE LET discounts == IF req.CouponCode # ""
                          THEN applyDiscount(total.val, req.CouponCode)
                          ELSE Success(0) IN
    IF ~discounts.ok THEN discounts
    ELSE Success([ID |-> "", Total |-> total.val, Discounts |-> discounts.val,
                  Items |-> req.Items, Products |-> products.val])

\* fmt.Sprintf("%.2f", x): two decimals, that is a multiple of 100 units
Sprintf2(x) == ((x + 50) \div 100) * 100

\* the row INSERT INTO orders writes; items counts the order_items rows written
OrderRow(order, n, items) ==
    [id |-> OrderRowId(n), total |-> Sprintf2(order.Total),
     discounts |-> Sprintf2(order.Discounts), status |-> "pending", items |-> items]

---------------------------------------------------------------------------
(* Queue Store: orderQueueRepository *)

\* rows.Scan and the decoding that follows it, for one row
ScanItem(row) ==
    [ID         |-> row.id,
     OrderReq   |-> UnmarshalOrderReq(row.order_req),
     Status     |-> row.status,
     Error      |-> IF row.error.Valid THEN row.error.String ELSE "",
     Order      |-> IF row.order_data.Valid THEN UnmarshalOrder(row.order_data.doc)
                    ELSE NilOrder,
     RetryCount |-> row.retry_count]

RowIndex(id) == CHOOSE i \in 1 .. Len(queue) : queue[i].id = id

EligibleOrProcessing(row) ==
    \/ row.status \in {"pending", "processing"}
    \/ (row.status = "failed" /\ row.retry_count < MaxRetries)

\* WHERE status = 'pending' OR (status = 'failed' AND retry_count < 3)
Eligible(row) ==
    \/ row.status = "pending"
    \/ (row.status = "failed" /\ row.retry_count < MaxRetries)

\* ORDER BY created_at ASC LIMIT n FOR UPDATE SKIP LOCKED: the row indexes selected
SelectPending(n) ==
    LET free == {i \in 1 .. Len(queue) : Eligible(queue[i]) /\ queue[i].id \notin locked}
    IN  {i \in free : Cardinality({j \in free : j < i}) < n}

RECURSIVE Ascending(_)
Ascending(S) ==
    IF S = {} THEN <<>>
    ELSE LET m == CHOOSE i \in S : \A j \in S : i <= j
         IN  <<m>> \o Ascending(S \ {m})

\* UPDATE order_queue SET status, error, order_data, retry_count WHERE id
UpdateItem(row, item) ==
    [row EXCEPT !.status = item.Status,
                !.error = ValidString(item.Error),
                !.order_data = Json(IF item.Order = NilOrder THEN EmptyDoc
                                    ELSE MarshalOrder(item.Order)),
                !.retry_count = item.RetryCount]

\* UPDATE order_queue SET status = 'completed', order_data, error = NULL WHERE id
MarkAsCompleted(row, order) ==
    [row EXCEPT !.status = "completed",
                !.order_data = Json(MarshalOrder(order)),
                !.error = NullString]

\* SELECT ... WHERE id = $1
GetOrderFromQueue(id) ==
    IF \E i \in 1 .. Len(queue) : queue[i].id = id
    THEN Success(ScanItem(queue[RowIndex(id)]))
    ELSE Failure("order not found")

---------------------------------------------------------------------------
(* Order lookup: OrderHandler.GetOrder *)

\* an id that no table holds, and a path parameter that is no UUID
UnknownId == "550e8400-e29b-41d4-a716-4466554400aa"
NotAUuid == "not-a-uuid"

\* uuid.Parse, and the uuid type of the id columns; the ids the model hands out
\* stand for UUIDs
ParsesAsUUID(id) ==
    \/ Len(id) = UUIDLen
    \/ \E n \in 1 .. MaxItems * (MaxCalls + 1) : id = QueueItemId(n) \/ id = OrderRowId(n)

\* orderRepository.mapSQLCToModel (the order_items rows are not read back here)
mapSQLCToModel(dbOrder) ==
    [ID |-> dbOrder.id, Total |-> dbOrder.total, Discounts |-> dbOrder.discounts,
     Items |-> <<>>, Products |-> <<>>]

\* orderRepository.FindOne
FindOneOrder(id) ==
    IF ~ParsesAsUUID(id) THEN Failure("invalid order ID")
    ELSE IF ~\E k \in 1 .. Len(orders) : orders[k].id = id THEN Failure("order not found")
    ELSE Success(mapSQLCToModel(orders[CHOOSE k \in 1 .. Len(orders) : orders[k].id = id]))

\* orderService.GetOrder: the error of the repository is wrapped
ServiceGetOrder(id) ==
    IF id = "" THEN Failure("order ID cannot be empty")
    ELSE LET found == FindOneOrder(id) IN
         IF ~found.ok THEN Failure("failed to get order by ID " \o id \o ": " \o found.err)
         ELSE found

\* the query of GetOrderFromQueue on the uuid column id
QueueLookup(id) ==
    IF ~ParsesAsUUID(id) THEN Failure("failed to get order from queue")
    ELSE GetOrderFromQueue(id)

\* OrderHandler.GetOrder: status code and body
GetOrder(id) ==
    IF id = "" THEN [code |-> 400, order |-> NilOrder]
    ELSE LET queueItem == QueueLookup(id) IN
         IF queueItem.ok /\ queueItem.val.Order # NilOrder
         THEN [code |-> 200, order |-> queueItem.val.Order]
         ELSE LET order == ServiceGetOrder(id) IN
              IF ~order.ok
              THEN IF order.err = "order not found"
                   THEN [code |-> 404, order |-> NilOrder]
                   ELSE [code |-> 500, order |-> NilOrder]
              ELSE [code |-> 200, order |-> order.val]

LookupIds == {QueueItemId(1), QueueItemId(2), OrderRowId(1), UnknownId, NotAUuid}

---------------------------------------------------------------------------
(* Queue Worker Pool: orderQueueService.ProcessBatch and processQueueItem *)

IngestVars == <<resp, lastBody, submitted>>

Current(w) == Head(batch[w])

SetCurrent(w, item) == batch' = [batch EXCEPT ![w] = <<item>> \o Tail(batch[w])]

\* the loop of ProcessBatch moves to the next item, or ProcessBatch returns
NextItem(w) ==
    /\ batch' = [batch EXCEPT ![w] = Tail(batch[w])]
    /\ IF Tail(batch[w]) = <<>>
       THEN pc' = [pc EXCEPT ![w] = "idle"] /\ claimed' = [claimed EXCEPT ![w] = {}]
       ELSE pc' = [pc EXCEPT ![w] = "mark"] /\ UNCHANGED claimed

\* queueRepo.GetPendingItems: the query runs and locks the rows it returns
GetPendingItems(w) ==
    /\ pc[w] = "idle"
    /\ \E ok \in DbOutcomes :
         /\ CountFailure(ok)
         /\ IF ok
            THEN LET sel == SelectPending(BatchSize) IN
                 /\ batch' = [batch EXCEPT ![w] =
                        [k \in 1 .. Cardinality(sel) |-> ScanItem(queue[Ascending(sel)[k]])]]
                 /\ claimed' = [claimed EXCEPT ![w] = {queue[i].id : i \in sel}]
                 /\ locked' = locked \cup {queue[i].id : i \in sel}
                 /\ pc' = [pc EXCEPT ![w] = "rows"]
            ELSE UNCHANGED <<batch, claimed, locked, pc>>
    /\ UNCHANGED <<queue, orders, origin, CouponVars, calls, IngestVars, LifeVars, RateVars, conn>>

\* defer rows.Close(): the statement ends and with it its row locks
CloseRows(w) ==
    /\ pc[w] = "rows"
    /\ locked' = locked \ claimed[w]
    /\ IF batch[w] = <<>>
       THEN pc' = [pc EXCEPT ![w] = "idle"] /\ claimed' = [claimed EXCEPT ![w] = {}]
       ELSE pc' = [pc EXCEPT ![w] = "mark"] /\ UNCHANGED claimed
    /\ UNCHANGED <<queue, orders, origin, CouponVars, batch, calls, dbFailures, IngestVars, LifeVars, RateVars, conn>>

\* processQueueItem: item.Status = "processing"; queueRepo.UpdateItem
MarkProcessing(w) ==
    /\ pc[w] = "mark"
    /\ LET item == [Current(w) EXCEPT !.Status = "processing"]
           i    == RowIndex(item.ID)
       IN  \E ok \in DbOutcomes :
             /\ CountFailure(ok)
             /\ IF ok
                THEN /\ queue' = [queue EXCEPT ![i] = UpdateItem(queue[i], item)]
                     /\ SetCurrent(w, item)
                     /\ pc' = [pc EXCEPT ![w] = "create"]
                     /\ UNCHANGED claimed
                ELSE /\ NextItem(w)
                     /\ UNCHANGED queue
    /\ UNCHANGED <<orders, origin, locked, CouponVars, calls, IngestVars, LifeVars, RateVars, conn>>

\* outcomes of orderRepo.Create: both inserts succeed, INSERT INTO orders fails,
\* or the order row is written and an INSERT INTO order_items fails
CreateOutcomes ==
    IF ~DbUsable THEN {"orderFails"}
    ELSE IF dbFailures < MaxDbFailures THEN {"ok", "orderFails", "itemsFail"} ELSE {"ok"}

Bump(n) == IF n < MaxCalls THEN n + 1 ELSE n

\* the branch err != nil of processQueueItem, before its UpdateItem
FailedItem(item, msg) ==
    [item EXCEPT !.Status = "failed", !.Error = msg, !.RetryCount = item.RetryCount + 1]

\* the branch err == nil of processQueueItem, before MarkAsCompleted
CompletedItem(item, order) ==
    [item EXCEPT !.Status = "completed", !.Order = order, !.Error = ""]

\* processQueueItem: orderSvc.CreateOrder(ctx, &item.OrderReq) and the branch on err
CreateOrder(w) ==
    /\ pc[w] = "create"
    /\ LET item  == Current(w)
           i     == RowIndex(item.ID)
           built == IF DbUsable \/ ~validateOrderReq(item.OrderReq).ok
                    THEN BuildOrder(item.OrderReq)
                    ELSE Failure("failed to get products for order")
       IN  /\ calls' = [calls EXCEPT ![i] = Bump(calls[i])]
           /\ IF ~built.ok
              THEN /\ SetCurrent(w, FailedItem(item, built.err))
                   /\ pc' = [pc EXCEPT ![w] = "fail"]
                   /\ UNCHANGED <<orders, origin, dbFailures>>
              ELSE \E out \in CreateOutcomes :
                   LET n     == Len(orders) + 1
                       order == [built.val EXCEPT !.ID = OrderRowId(n)]
                   IN  /\ CountFailure(out = "ok")
                       /\ orders' =
                            IF out = "ok"
                            THEN Append(orders, OrderRow(order, n, Len(order.Items)))
                            ELSE IF out = "itemsFail"
                            THEN Append(orders, OrderRow(order, n, 0))
                            ELSE orders
                       /\ origin' = IF out = "orderFails" THEN origin
                                    ELSE Append(origin, item.ID)
                       /\ IF out = "ok"
                          THEN /\ SetCurrent(w, CompletedItem(item, order))
                               /\ pc' = [pc EXCEPT ![w] = "complete"]
                          ELSE /\ SetCurrent(w, FailedItem(item, "failed to create order"))
                               /\ pc' = [pc EXCEPT ![w] = "fail"]
    /\ UNCHANGED <<queue, locked, CouponVars, claimed, IngestVars, LifeVars, RateVars, conn>>

\* processQueueItem: queueRepo.UpdateItem of the failed item, then return
MarkFailed(w) ==
    /\ pc[w] = "fail"
    /\ LET item == Current(w)
           i    == RowIndex(item.ID)
       IN  \E ok \in DbOutcomes :
             /\ CountFailure(ok)
             /\ queue' = IF ok THEN [queue EXCEPT ![i] = UpdateItem(queue[i], item)]
                         ELSE queue
    /\ NextItem(w)
    /\ UNCHANGED <<orders, origin, locked, CouponVars, calls, IngestVars, LifeVars, RateVars, conn>>

\* processQueueItem: queueRepo.MarkAsCompleted(ctx, item.ID, order), then return
MarkCompleted(w) ==
    /\ pc[w] = "complete"
    /\ LET item == Current(w)
           i    == RowIndex(item.ID)
       IN  \E ok \in DbOutcomes :
             /\ CountFailure(ok)
             /\ queue' = IF ok THEN [queue EXCEPT ![i] = MarkAsCompleted(queue[i], item.Order)]
                         ELSE queue
    /\ NextItem(w)
    /\ UNCHANGED <<orders, origin, locked, CouponVars, calls, IngestVars, LifeVars, RateVars, conn>>

\* one step of the worker w: StartWorker's tick runs ProcessBatch to its end
Worker(w) ==
    \/ GetPendingItems(w)
    \/ CloseRows(w)
    \/ MarkProcessing(w)
    \/ CreateOrder(w)
    \/ MarkFailed(w)
    \/ MarkCompleted(w)

---------------------------------------------------------------------------
(* Worker loop and process lifecycle: StartWorker, StartServer, NewHTTPServer *)

QueueTables == <<queue, orders, origin, submitted, dbFailures>>

\* something called by processQueueItem panics while the item is realized
PanicInItem(w) ==
    /\ pc[w] = "create"
    /\ panics < MaxPanics
    /\ panics' = panics + 1
    /\ calls' = [calls EXCEPT ![RowIndex(Current(w).ID)] = Bump(@)]
    /\ pc' = [pc EXCEPT ![w] = "panic"]
    /\ UNCHANGED <<QueueTables, locked, batch, claimed, resp, lastBody, CouponVars,
                   cancelled, dbOpen, http, signal, RateVars, conn>>

AfterRecoverDead == "dead"

\* where the goroutine of StartWorker is once the deferred recover() has run:
\* the function literal of the tick has returned and the loop selects again
AfterRecover == "idle"

\* the panic unwinds ProcessBatch up to the deferred recover() of the tick
Recover(w) ==
    /\ pc[w] = "panic"
    /\ pc' = [pc EXCEPT ![w] = AfterRecover]
    /\ batch' = [batch EXCEPT ![w] = <<>>]
    /\ claimed' = [claimed EXCEPT ![w] = {}]
    /\ UNCHANGED <<QueueTables, calls, locked, resp, lastBody, CouponVars, LifeVars,
                   RateVars, conn>>

\* the owner of the context passed to StartWorker cancels it
Cancel ==
    /\ ~cancelled
    /\ cancelled' = TRUE
    /\ UNCHANGED <<QueueTables, calls, WorkerVars, resp, lastBody, CouponVars, dbOpen, http,
                   signal, panics, RateVars, conn>>

\* case <-ctx.Done(): return
WorkerExit(w) ==
    /\ pc[w] = "idle"
    /\ cancelled
    /\ pc' = [pc EXCEPT ![w] = "stopped"]
    /\ UNCHANGED <<QueueTables, calls, locked, batch, claimed, resp, lastBody, CouponVars,
                   LifeVars, RateVars, conn>>

\* SIGINT or SIGTERM reaches the process
Signal ==
    /\ ~signal
    /\ signal' = TRUE
    /\ UNCHANGED <<QueueTables, calls, WorkerVars, resp, lastBody, CouponVars, cancelled,
                   dbOpen, http, panics, RateVars, conn>>

\* the goroutine of StartServer: <-quit, then db.Close()
CloseDb ==
    /\ signal
    /\ dbOpen
    /\ dbOpen' = FALSE
    /\ UNCHANGED <<QueueTables, calls, WorkerVars, resp, lastBody, CouponVars, cancelled,
                   http, signal, panics, RateVars, conn>>

\* the OnStop hook of NewHTTPServer: server.Shutdown
HttpShutdown ==
    /\ signal
    /\ http = "serving"
    /\ http' = "stopped"
    /\ UNCHANGED <<QueueTables, calls, WorkerVars, resp, lastBody, CouponVars, cancelled,
                   dbOpen, signal, panics, RateVars, conn>>

\* app.Run() returns after the OnStop hooks and main ends with its goroutines
ProcessExit ==
    /\ http = "stopped"
    /\ \E w \in Workers : pc[w] # "exited"
    /\ pc' = [w \in Workers |-> "exited"]
    /\ UNCHANGED <<QueueTables, calls, locked, batch, claimed, resp, lastBody, CouponVars,
                   LifeVars, RateVars, conn>>

---------------------------------------------------------------------------
(* API gateway: SetupRouter, APIKeyAuth, RateLimitMiddleware.RateLimit and *)
(* rateLimiterService.  Time is counted in ticks; the limiter's window of *)
(* one minute is Window ticks, and the limits of the router (100, 50 and 30 *)
(* requests per window) are scaled down to ProductLimit, OrderLimit and *)
(* QueueLimit, which keep their order. *)

BackendVars == <<queue, orders, origin, CouponVars, WorkerVars, IngestVars, calls,
                 dbFailures, LifeVars>>

\* cfg.API.APIKey (API_KEY, default "apitest"), and a key that is not configured
ApiKey == "apitest"
WrongKey == "wrong"
validKeys == {ApiKey}

\* the two headers of a request; "" is a header that was not sent
Headers == [xApiKey : {"", ApiKey, WrongKey}, apiKey : {"", ApiKey, WrongKey}]
ValidHeaders == {[xApiKey |-> ApiKey, apiKey |-> ""]}

\* the key APIKeyAuth looks at
PresentedKeyNoFallback(hdr) == hdr.xApiKey

PresentedKey(hdr) == IF hdr.xApiKey = "" THEN hdr.apiKey ELSE hdr.xApiKey

\* APIKeyAuth: 401 when it aborts, 0 when it calls c.Next()
AuthStatus(hdr) ==
    IF PresentedKey(hdr) = "" THEN 401
    ELSE IF PresentedKey(hdr) \notin validKeys THEN 401
    ELSE 0

\* the routes of /api/v1 and the limit of their group
RouteLimit ==
    [product |-> ProductLimit, placeOrder |-> OrderLimit, getOrder |-> OrderLimit,
     queueStatus |-> QueueLimit]
RouteClass ==
    [product |-> "product", placeOrder |-> "order", getOrder |-> "order",
     queueStatus |-> "queue"]

\* c.ClientIP() of the client of the model, and the key of its bucket
ClassLimit == [product |-> ProductLimit, order |-> OrderLimit, queue |-> QueueLimit]

ClientIP == "10.0.0.1"
RateKey(ip) == "rate_limit:" \o ip

Min(a, b) == IF a < b THEN a ELSE b

\* tokenBucketScript: the reply and the two fields it writes back with HMSET
tokenBucketScriptNoSpend(store, key, capacity, tokens, interval, request, current_time) ==
    [allowed |-> 1, tokens |-> capacity, last_refill |-> current_time]

tokenBucketScript(store, key, capacity, tokens, interval, request, current_time) ==
    LET stored_tokens == IF key \in DOMAIN store THEN store[key].tokens ELSE capacity
        last_refill == IF key \in DOMAIN store THEN store[key].last_refill ELSE current_time
        elapsed == current_time - last_refill
        tokens_to_add == (elapsed \div interval) * tokens
        current_tokens == Min(capacity, stored_tokens + tokens_to_add)
    IN  IF current_tokens >= request
        THEN [allowed |-> 1, tokens |-> current_tokens - request,
              last_refill |-> current_time]
        ELSE [allowed |-> 0, tokens |-> current_tokens, last_refill |-> current_time]

HSet(store, key, reply) ==
    [k \in DOMAIN store \cup {key} |->
        IF k = key THEN [tokens |-> reply.tokens, last_refill |-> reply.last_refill]
        ELSE store[k]]

\* the handler chain of every /api/v1 route: Use(authMiddleware, RateLimit(...)),
\* then the handler of the route
ChainLimitFirst == <<"limit", "auth", "handler">>

Chain == <<"auth", "limit", "handler">>

\* c.Next(): the stage that follows stage s in the chain
StageAfter(s) == Chain[(CHOOSE k \in 1 .. Len(Chain) : Chain[k] = s) + 1]

\* a request reaches the router
Arrive(c, route, hdr, body, id) ==
    /\ conn[c].pc = "free"
    /\ Len(decisions) + Cardinality({k \in Conns : conn[k].pc # "free"}) < MaxRequests
    /\ conn' = [conn EXCEPT ![c] =
                   [pc |-> Chain[1], route |-> route, hdr |-> hdr, body |-> body, id |-> id,
                    ts |-> 0, err |-> FALSE, code |-> 0, ran |-> FALSE,
                    allowed |-> FALSE, remaining |-> NullString]]
    /\ UNCHANGED <<BackendVars, bucket, clock, decisions>>

\* APIKeyAuth
APIKeyAuth(c) ==
    /\ conn[c].pc = "auth"
    /\ conn' = [conn EXCEPT ![c] =
                   IF AuthStatus(conn[c].hdr) # 0
                   THEN [@ EXCEPT !.pc = "done", !.code = AuthStatus(conn[c].hdr)]
                   ELSE [@ EXCEPT !.pc = StageAfter("auth")]]
    /\ UNCHANGED <<BackendVars, bucket, clock, decisions>>

\* AllowRequest up to the call of the script: currentTime is read here
AllowRequest(c) ==
    /\ conn[c].pc = "limit"
    /\ conn' = [conn EXCEPT ![c] = [@ EXCEPT !.pc = "script", !.ts = clock]]
    /\ UNCHANGED <<BackendVars, bucket, clock, decisions>>

\* status of the middleware after AllowRequest returned (allowed, err)
LimitStatusAdmitsOnError(allowed, err) == IF ~allowed /\ ~err THEN 429 ELSE 0

LimitStatus(allowed, err) == IF err THEN 500 ELSE IF ~allowed THEN 429 ELSE 0

\* luaScript.Run: the store runs the script as one unit.  Outcomes of the call:
\* "ok", "error" (the script did not run) and "lost" (it ran, the reply was lost)
RunScript(c, outcomes) ==
    /\ conn[c].pc = "script"
    /\ \E outcome \in outcomes :
         LET limit == RouteLimit[conn[c].route]
             key == RateKey(ClientIP)
             reply == tokenBucketScript(bucket, key, limit, limit, Window, 1, conn[c].ts)
             status == LimitStatus(outcome = "ok" /\ reply.allowed = 1, outcome # "ok")
         IN  /\ bucket' = IF outcome = "error" THEN bucket ELSE HSet(bucket, key, reply)
             /\ decisions' = IF outcome # "ok" THEN decisions
                             ELSE Append(decisions,
                                         [class |-> RouteClass[conn[c].route],
                                          ts |-> conn[c].ts, at |-> clock,
                                          allowed |-> reply.allowed = 1,
                                          left |-> reply.tokens])
             /\ conn' = [conn EXCEPT ![c] =
                            IF status = 500
                            THEN [@ EXCEPT !.pc = "done", !.code = status,
                                           !.err = outcome # "ok"]
                            ELSE [@ EXCEPT !.pc = "headers", !.err = outcome # "ok",
                                           !.allowed = status = 0]]
    /\ UNCHANGED <<BackendVars, clock>>

\* GetRemainingTokens: HGET tokens, the limit when the key has no bucket
GetRemainingTokens(store, key, limit) ==
    IF key \notin DOMAIN store THEN limit ELSE store[key].tokens

\* RateLimit after AllowRequest returned without error: it reads the remaining
\* tokens, sets the X-RateLimit headers, and answers 429 or calls c.Next()
SetHeaders(c) ==
    /\ conn[c].pc = "headers"
    /\ conn' = [conn EXCEPT ![c] =
                   [@ EXCEPT !.remaining = ValidString(ToString(GetRemainingTokens(
                                               bucket, RateKey(ClientIP),
                                               RouteLimit[conn[c].route]))),
                             !.pc = IF conn[c].allowed THEN StageAfter("limit") ELSE "done",
                             !.code = IF conn[c].allowed THEN 0 ELSE 429]]
    /\ UNCHANGED <<BackendVars, bucket, clock, decisions>>

\* the handler of the route
Handler(c) ==
    /\ conn[c].pc = "handler"
    /\ IF conn[c].route = "placeOrder"
       THEN /\ PlaceOrder(conn[c].body)
            /\ conn' = [conn EXCEPT ![c] =
                           [@ EXCEPT !.pc = "done", !.code = resp'.code, !.ran = TRUE]]
       ELSE /\ conn' = [conn EXCEPT ![c] =
                           [@ EXCEPT !.pc = "done", !.ran = TRUE,
                                     !.code = IF conn[c].route = "getOrder"
                                              THEN GetOrder(conn[c].id).code ELSE 200]]
            /\ UNCHANGED <<BackendVars, bucket, clock, decisions>>

\* the response is written and the connection serves the next request
Respond(c) ==
    /\ conn[c].pc = "done"
    /\ conn' = [conn EXCEPT ![c] = NoRequest]
    /\ UNCHANGED <<BackendVars, bucket, clock, decisions>>

\* time passes
Tick ==
    /\ clock < MaxTime
    /\ clock' = clock + 1
    /\ UNCHANGED <<BackendVars, bucket, conn, decisions>>

---------------------------------------------------------------------------
(* Request bodies of the specifications *)

Body(code, items) == [couponCode |-> code, items |-> items]

\* bodies that pass PlaceOrder and exercise the worker: realizable, unknown
\* coupon, product missing from the catalog
WorkerBodies ==
    {Body("", <<BodyItem(P1, 2)>>),
     Body("NOTREAL", <<BodyItem(P1, 2)>>),
     Body("", <<BodyItem(PMissing, 1)>>)}

IngestItems == {BodyItem(p, q) : p \in {P1, PMissing, PShort, PLong, ""}, q \in {-1, 0, 2}}

IngestPairItems == {BodyItem(p, q) : p \in {P1, PMissing, PShort}, q \in {-1, 0, 2}}

IngestBodies ==
    {Malformed, [couponCode |-> "HAPPYHRS"]}
    \cup {Body(c, <<>>) : c \in {"", "NOTREAL"}}
    \cup {Body(c, <<a>>) : c \in {"", "NOTREAL"}, a \in IngestItems}
    \cup {Body("", <<a, b>>) : a \in IngestPairItems, b \in IngestPairItems}

---------------------------------------------------------------------------
(* Specifications *)

\* the queue tables are empty and the workers idle
InitQueue ==
    /\ queue = <<>>
    /\ orders = <<>>
    /\ origin = <<>>
    /\ locked = {}
    /\ pc = [w \in Workers |-> "idle"]
    /\ batch = [w \in Workers |-> <<>>]
    /\ claimed = [w \in Workers |-> {}]
    /\ resp = NoResponse
    /\ lastBody = EmptyDoc
    /\ submitted = <<>>
    /\ calls = <<>>
    /\ dbFailures = 0
    /\ cancelled = FALSE
    /\ dbOpen = TRUE
    /\ http = "serving"
    /\ signal = FALSE
    /\ panics = 0
    /\ bucket = <<>>
    /\ clock = 0
    /\ conn = [c \in Conns |-> NoRequest]
    /\ decisions = <<>>

\* the coupon store at rest with the counts m
InitCoupons(m) ==
    /\ validCoupons = m
    /\ mutex = MutexFree
    /\ refresh = RefreshIdle
    /\ reader = ReaderIdle
    /\ cycle = NoCycle
    /\ committed = {DOMAIN m}

\* the server after the first load of the coupon files found SAVE10NOW twice
Init == InitQueue /\ InitCoupons("SAVE10NOW" :> 2)

\* the queue with its pool of workers
Next ==
    \/ \E b \in WorkerBodies : PlaceOrder(b) /\ UNCHANGED conn
    \/ \E w \in Workers : Worker(w)

Spec == Init /\ [][Next]_vars

\* the request path alone
IngestNext == \E b \in IngestBodies : PlaceOrder(b) /\ UNCHANGED conn

IngestSpec == Init /\ [][IngestNext]_vars

\* one worker, a wider range of requests
PricingBodies ==
    {Body("", <<BodyItem(P1, 2)>>),
     Body("HAPPYHRS", <<BodyItem(P1, 1), BodyItem(P2, 3)>>),
     Body("fiftyoff", <<BodyItem(P2, 1), BodyItem(P2, 2)>>),
     Body("SAVE10NOW", <<BodyItem(P1, 2)>>),
     Body("NOTREAL", <<BodyItem(P1, 2)>>),
     Body("UNKNOWN99", <<BodyItem(P1, 1), BodyItem(P2, 3)>>),
     Body("", <<BodyItem(PMissing, 1)>>),
     Body("", <<[productId |-> P1, quantity |-> 1, price |-> 10000]>>)}

PricingNext ==
    \/ \E b \in PricingBodies : PlaceOrder(b) /\ UNCHANGED conn
    \/ Worker(1)

PricingSpec == Init /\ [][PricingNext]_vars

\* one worker that keeps ticking (the ticker of StartWorker)
LiveNext ==
    \/ \E b \in WorkerBodies : PlaceOrder(b) /\ UNCHANGED conn
    \/ Worker(1)

LiveSpec == Init /\ [][LiveNext]_vars /\ WF_vars(Worker(1))

\* the coupon store from NewCouponService on: refresh cycles and readers
CouponInit == InitQueue /\ InitCoupons(<<>>)

CouponNext == Refresh \/ Read

CouponSpec == CouponInit /\ [][CouponNext]_vars

\* the refresh goroutine alone, scheduled fairly, with sources whose stream breaks
RefreshLiveNext == Refresh \/ RefreshReadError \/ RefreshWarn \/ RefreshReadAgain

RefreshLiveSpec == CouponInit /\ [][RefreshLiveNext]_vars /\ WF_vars(RefreshLiveNext)

\* applyDiscount of one order against the coupon store while it is refreshed
DiscountNext ==
    \/ Refresh
    \/ \E code \in {"SAVE10NOW", "HAPPYHRS", "NOTREAL99"} : ApplyDiscountValidate(code)
    \/ ReadRLock
    \/ ReadReturn
    \/ ApplyDiscountPercentage

DiscountSpec == Init /\ [][DiscountNext]_vars

\* one worker with panics, cancellation of its context and process shutdown
LifecycleNext ==
    \/ \E b \in WorkerBodies : PlaceOrder(b) /\ UNCHANGED conn
    \/ Worker(1)
    \/ PanicInItem(1)
    \/ Recover(1)
    \/ Cancel
    \/ WorkerExit(1)
    \/ Signal
    \/ CloseDb
    \/ HttpShutdown
    \/ ProcessExit

LifecycleSpec == Init /\ [][LifecycleNext]_vars

\* the gateway in front of the order routes: every combination of the two key
\* headers, every outcome of the store call
GateNext ==
    \/ \E c \in Conns, hdr \in Headers :
          \/ \E b \in {Body("", <<BodyItem(P1, 2)>>), Malformed} : Arrive(c, "placeOrder", hdr, b, "")
          \/ Arrive(c, "getOrder", hdr, EmptyDoc, QueueItemId(1))
    \/ \E c \in Conns : APIKeyAuth(c)
    \/ \E c \in Conns : AllowRequest(c)
    \/ \E c \in Conns : RunScript(c, {"ok", "error", "lost"})
    \/ \E c \in Conns : SetHeaders(c)
    \/ \E c \in Conns : Handler(c)
    \/ \E c \in Conns : Respond(c)

GateSpec == Init /\ [][GateNext]_vars

\* the requests of the routing test of the README: POST /api/v1/order with the
\* valid key in api_key and one item of quantity 2, once with the product id of
\* the test and once with the id of a catalog product
TestBody == Body("", <<BodyItem("test-1", 2)>>)

RoutingNext ==
    \/ \E c \in Conns, b \in {TestBody, Body("", <<BodyItem(P1, 2)>>)} :
          Arrive(c, "placeOrder", [xApiKey |-> "", apiKey |-> ApiKey], b, "")
    \/ \E c \in Conns : APIKeyAuth(c)
    \/ \E c \in Conns : AllowRequest(c)
    \/ \E c \in Conns : RunScript(c, {"ok"})
    \/ \E c \in Conns : SetHeaders(c)
    \/ \E c \in Conns : Handler(c)
    \/ \E c \in Conns : Respond(c)

RoutingSpec == Init /\ [][RoutingNext]_vars

\* one bucket with one capacity: authenticated calls of one route, sequential
\* on one connection or concurrent on two, while time passes
LimitNext ==
    \/ \E c \in Conns, hdr \in ValidHeaders :
          Arrive(c, "getOrder", hdr, EmptyDoc, UnknownId)
    \/ \E c \in Conns : APIKeyAuth(c)
    \/ \E c \in Conns : AllowRequest(c)
    \/ \E c \in Conns : RunScript(c, {"ok"})
    \/ \E c \in Conns : SetHeaders(c)
    \/ \E c \in Conns : Handler(c)
    \/ \E c \in Conns : Respond(c)
    \/ Tick

LimitSpec == Init /\ [][LimitNext]_vars

\* one client calling the three endpoint classes, one request after the other
RateNext ==
    \/ \E c \in {1}, hdr \in ValidHeaders, route \in {"product", "getOrder", "queueStatus"} :
          Arrive(c, route, hdr, EmptyDoc, IF route = "getOrder" THEN UnknownId ELSE "")
    \/ \E c \in {1} : APIKeyAuth(c)
    \/ \E c \in {1} : AllowRequest(c)
    \/ \E c \in {1} : RunScript(c, {"ok"})
    \/ \E c \in {1} : SetHeaders(c)
    \/ \E c \in {1} : Handler(c)
    \/ \E c \in {1} : Respond(c)
    \/ Tick

RateSpec == Init /\ [][RateNext]_vars

---------------------------------------------------------------------------
(* Properties *)

Rows == 1 .. Len(queue)

\* terminal: completed, or failed with the retries used up
Terminal(row) ==
    \/ row.status = "completed"
    \/ (row.status = "failed" /\ row.retry_count >= MaxRetries)

\* C1: the sets of item ids returned by GetPendingItems to two workers whose
\* ProcessBatch runs overlap are disjoint.
C1_ClaimsDisjoint ==
    \A w1 \in Workers : \A w2 \in Workers :
        w1 # w2 => claimed[w1] \cap claimed[w2] = {}

AllowedTransitions ==
    {<<"pending", "processing">>, <<"processing", "completed">>,
     <<"processing", "failed">>, <<"failed", "processing">>}

\* C2: the stored status of a queue item changes only along pending -> processing,
\* processing -> completed, processing -> failed and failed -> processing.
C2_StatusTransitions ==
    [][\A i \in Rows :
          queue'[i].status # queue[i].status
              => <<queue[i].status, queue'[i].status>> \in AllowedTransitions]_vars

\* C3: once a queue item is terminal, no later operation changes its status,
\* retry_count, error or realized-order payload.
C3_TerminalFrozen ==
    [][\A i \in Rows : Terminal(queue[i]) => queue'[i] = queue[i]]_vars

\* C4: CreateOrder is invoked for one queue item at most MAX_RETRIES + 1 times.
C4_RetryBound == \A i \in Rows : calls[i] <= MaxRetries + 1

\* C5: while a worker keeps ticking, every enqueued item eventually is completed
\* or failed with retry_count >= 3, also after a transient queue-store write failure.
C5_EveryItemTerminates ==
    \A i \in 1 .. MaxItems :
        (i <= Len(queue)) ~> (i <= Len(queue) /\ Terminal(queue[i]))

\* the item of a body that decides, as the claim states it
Offending(it) == Len(it.productId) # UUIDLen \/ it.quantity <= 0

ClaimedRejection(b) ==
    IF IsMalformed(b) THEN 400
    ELSE IF "items" \notin DOMAIN b THEN 400
    ELSE IF b.items = <<>> THEN 400
    ELSE IF \E k \in 1 .. Len(b.items) : Offending(b.items[k])
    THEN LET k == CHOOSE k \in 1 .. Len(b.items) :
                    /\ Offending(b.items[k])
                    /\ \A j \in 1 .. k - 1 : ~Offending(b.items[j])
         IN  IF Len(b.items[k].productId) # UUIDLen THEN 400 ELSE 422
    ELSE 0

C8_LookupAfterEnqueue ==
    \A i \in Rows :
        queue[i].status = "pending"
            => GetOrderFromQueue(QueueItemId(i)) =
                   Success([ID |-> QueueItemId(i), OrderReq |-> submitted[i],
                            Status |-> "pending", Error |-> "", Order |-> NilOrder,
                            RetryCount |-> 0])

C8_Witness ==
    /\ resp.code = 202
    /\ Len(queue) = 2
    /\ resp.queueItemId = queue[2].id
    /\ queue[2].status = "pending"
    /\ submitted[2].CouponCode = "HAPPYHRS"
    /\ Len(submitted[2].Items) = 2
    /\ queue[1].status = "completed"

\* every product of the request is in the catalog
Realizable(req) == \A k \in 1 .. Len(req.Items) : req.Items[k].ProductID \in DOMAIN Catalog

\* C9: a coupon code the Coupon Store does not recognize never fails the order: the
\* queue item of a realizable request with such a code does not become failed.
C9_UnknownCouponNeverFails ==
    \A i \in Rows :
        (/\ submitted[i].CouponCode # ""
         /\ ~ValidateCoupon(submitted[i].CouponCode)
         /\ Realizable(submitted[i]))
            => queue[i].status # "failed"

RECURSIVE CatalogTotal(_)
CatalogTotal(items) ==
    IF items = <<>> THEN 0
    ELSE Catalog[Head(items).ProductID] * Head(items).Quantity + CatalogTotal(Tail(items))

\* the percentage of a recognized code: 10, 50, and 5 for a code of the snapshot
ClaimedPct(code) ==
    IF ToUpper(code) = "HAPPYHRS" THEN 10
    ELSE IF ToUpper(code) = "FIFTYOFF" THEN 50
    ELSE 5

\* C10: the order of a completed item has total = sum of catalog price x quantity,
\* discount = total x pct / 100 for a recognized coupon, and discount 0 with no coupon.
C10_TotalAndDiscount ==
    \A i \in Rows :
        queue[i].status = "completed"
            => LET order == ScanItem(queue[i]).Order
                   code  == submitted[i].CouponCode
               IN  /\ order # NilOrder
                   /\ order.Total = CatalogTotal(submitted[i].Items)
                   /\ (code # "" /\ ValidateCoupon(code))
                          => order.Discounts * 100 = order.Total * ClaimedPct(code)
                   /\ code = "" => order.Discounts = 0

C10_Witness ==
    \E i \in Rows :
        /\ queue[i].status = "completed"
        /\ submitted[i].CouponCode = "fiftyoff"
        /\ Len(submitted[i].Items) = 2
        /\ ScanItem(queue[i]).Order.Discounts = 134850
        /\ \E j \in Rows : queue[j].status = "completed" /\ submitted[j].CouponCode = "SAVE10NOW"

\* the orders realized so far: those stored with completed items, and the rows
\* of the orders table
RealizedOrders ==
    {[total |-> ScanItem(queue[i]).Order.Total, discount |-> ScanItem(queue[i]).Order.Discounts] :
        i \in {j \in Rows : queue[j].status = "completed"}}
    \cup {[total |-> orders[k].total, discount |-> orders[k].discounts] : k \in 1 .. Len(orders)}

\* C11: every realized order has total >= 0 and 0 <= discount <= total, hence
\* total - discount >= 0.
C11_DiscountWithinTotal ==
    \A o \in RealizedOrders :
        /\ o.total >= 0
        /\ 0 <= o.discount
        /\ o.discount <= o.total
        /\ o.total - o.discount >= 0

C11_Witness ==
    /\ \E i \in Rows : /\ queue[i].status = "completed"
                       /\ submitted[i].CouponCode = "fiftyoff"
                       /\ ScanItem(queue[i]).Order.Discounts > 0
    /\ \E k \in 1 .. Len(orders) : orders[k].discounts > 0

\* C12: the order stored for a completed queue item carries the id of that item.
C12_OrderIdIsQueueItemId ==
    \A i \in Rows :
        queue[i].status = "completed" => ScanItem(queue[i]).Order.ID = queue[i].id

\* the rows of the orders table written by realizations of the queue item id
RowsOf(id) == {k \in 1 .. Len(orders) : origin[k] = id}

\* C13: realization is idempotent per queue item: at most one row of the orders
\* table originates from one queue item, and the rows of one item agree on
\* total and discount.
C13_OneOrderPerItem ==
    \A i \in Rows :
        /\ Cardinality(RowsOf(queue[i].id)) <= 1
        /\ \A k, l \in RowsOf(queue[i].id) :
              orders[k].total = orders[l].total /\ orders[k].discounts = orders[l].discounts

\* a request that passes ingestion and names a product the catalog does not have
MissingProduct(req) == \E k \in 1 .. Len(req.Items) : req.Items[k].ProductID \notin DOMAIN Catalog

\* C14: a product missing from the catalog is a non-retryable failure: the item is
\* realized at most once, and once it has failed it is not eligible for a claim.
C14_MissingProductNotRetried ==
    \A i \in Rows :
        MissingProduct(submitted[i])
            => /\ calls[i] <= 1
               /\ queue[i].status = "failed" => ~Eligible(queue[i])

\* the codes of trimmed length 8..10 that a source contains
CodesOf(records) ==
    {c \in {TrimSpace(records[i]) : i \in 1 .. Len(records)} :
        Len(c) >= MinCouponLen /\ Len(c) <= MaxCouponLen}

\* the codes that occur in at least two distinct sources
InTwoSources(read) ==
    {c \in UNION {CodesOf(read[f]) : f \in 1 .. Len(read)} :
        Cardinality({f \in 1 .. Len(read) : c \in CodesOf(read[f])}) >= 2}

AllRead(read) == Len(read) = Len(CouponFiles) /\ \A f \in 1 .. Len(read) : read[f] # DownloadFailed

AllFailed(read) == Len(read) = Len(CouponFiles) /\ \A f \in 1 .. Len(read) : read[f] = DownloadFailed

\* a refresh cycle has ended and no other is running
CycleEnded == refresh.pc = "idle" /\ cycle.n > 0

\* C15: after a refresh that read its sources, the published set is exactly the
\* codes of trimmed length 8..10 that occur in at least 2 distinct sources, a code
\* repeated inside one source counting once for that source.
C15_SnapshotIsTwoSourceCodes ==
    (CycleEnded /\ AllRead(cycle.read)) => DOMAIN validCoupons = InTwoSources(cycle.read)

\* C16: when every source fails in a cycle, the set published before the cycle is
\* retained: every code valid before it is valid after it.
C16_FailedCycleKeepsSnapshot ==
    (CycleEnded /\ AllFailed(cycle.read)) => cycle.before \subseteq DOMAIN validCoupons

\* C17: every ValidateCoupon call answers against a set that was the complete
\* result of a refresh cycle that ended, or the initial set; never against the
\* working set of a refresh in progress.
C17_ReadsSeeCommittedSets ==
    /\ reader.pc = "read" => DOMAIN validCoupons \in committed
    /\ reader.pc = "done" => reader.seen \in committed

C17_Witness ==
    /\ reader.pc = "done"
    /\ reader.seen = {"SAVE10NOW"}
    /\ cycle.n = 2
    /\ refresh.pc = "filter"
    /\ DOMAIN validCoupons # reader.seen
    /\ DOMAIN validCoupons \notin committed

\* a refresh is in progress: it holds the lock and downloads, parses or filters
RefreshInProgress == refresh.pc \in {"reset", "file", "filter", "unlock"}

\* C18: reads are not blocked by a refresh: while DownloadAndParseCouponFiles is
\* in progress, a call that has arrived can take its read lock and complete.
C18_ReadsNotBlocked ==
    (RefreshInProgress /\ reader.pc = "rlock") => CanRLock

\* C19: in every state of the Coupon Store HAPPYHRS is recognized with 10% and
\* FIFTYOFF with 50%, and a call for HAPPYHRS that returned says so.
C19_DemoCodesAlwaysValid ==
    /\ ValidateCoupon("HAPPYHRS") /\ GetDiscountPercentage("HAPPYHRS") = 10
    /\ ValidateCoupon("FIFTYOFF") /\ GetDiscountPercentage("FIFTYOFF") = 50
    /\ (reader.pc = "done" /\ reader.code = "HAPPYHRS")
          => /\ reader.valid
             /\ reader.op = "GetDiscountPercentage" => reader.pct = 10

C19_Witness ==
    /\ CycleEnded
    /\ cycle.n = 2
    /\ AllFailed(cycle.read)
    /\ cycle.before # {}
    /\ validCoupons = <<>>
    /\ reader.pc = "done"
    /\ reader.code = "HAPPYHRS"
    /\ reader.op = "GetDiscountPercentage"
    /\ reader.seen = {}

\* C20: lookups are case-insensitive: ValidateCoupon(c) = ValidateCoupon(uppercase(c))
\* for every input c, against every published set.
C20_CaseInsensitive ==
    refresh.pc = "idle"
        => \A c \in ReadCodes \cup {"happyhrs", "fiftyoff"} :
               ValidateCoupon(c) = ValidateCoupon(ToUpper(c))

\* the positions of a goroutine that is still inside the loop of StartWorker
InWorkerLoop == {"idle", "rows", "mark", "create", "fail", "complete", "panic"}

\* C26: a panic raised while an item is processed never ends the worker loop: the
\* worker leaves the loop of StartWorker only through the cancellation of its
\* context (or the end of the process), and goes on ticking after the panic.
C26_PanicKeepsWorkerLoop ==
    panics > 0
        => /\ pc[1] \in InWorkerLoop \cup {"stopped", "exited"}
           /\ pc[1] = "stopped" => cancelled
           /\ pc[1] = "exited" => http = "stopped"

C26_Witness ==
    /\ panics = 1
    /\ ~cancelled
    /\ http = "serving"
    /\ pc[1] = "complete"
    /\ \E i \in Rows : queue[i].status = "processing" /\ queue[i].id \notin claimed[1]

\* C27: on shutdown the HTTP server stops first, then the worker is cancelled and
\* stops, and only then the database handle is closed: while the handle is closed
\* the server is stopped and no worker is running.
C27_ShutdownOrder ==
    ~dbOpen => /\ http = "stopped"
               /\ \A w \in Workers : pc[w] \in {"stopped", "exited"}

\* C28: a panic in one item of a batch is recovered at the scope of that item: when
\* the worker leaves the panic and the batch has further items, it goes on with
\* the next item of the same batch.
C28_PanicRecoveredPerItem ==
    [][(pc[1] = "panic" /\ pc'[1] # "panic" /\ pc'[1] # "exited" /\ Tail(batch[1]) # <<>>)
          => (pc'[1] = "mark" /\ batch'[1] = Tail(batch[1]))]_vars

\* C29: cancelling the worker's context stops work only between items: when the
\* worker has left its loop after a cancellation (no database error was injected,
\* no panic raised, the handle open), no item is left in status processing.
C29_CancelBetweenItems ==
    (pc[1] = "stopped" /\ dbFailures = 0 /\ panics = 0 /\ dbOpen)
        => \A i \in Rows : queue[i].status # "processing"

\* the rows a claim may return: pending, or failed with retries left, and not
\* locked by the open statement of another claimant
Claimable == {i \in Rows : /\ \/ queue[i].status = "pending"
                             \/ (queue[i].status = "failed" /\ queue[i].retry_count < 3)
                          /\ queue[i].id \notin locked}

C25_GetOrderStatus ==
    \A id \in LookupIds :
        LET done == {i \in Rows : queue[i].id = id /\ queue[i].status = "completed"}
            rows == {k \in 1 .. Len(orders) : orders[k].id = id}
        IN  /\ done # {} => GetOrder(id) = [code |-> 200,
                                            order |-> ScanItem(queue[CHOOSE i \in done : TRUE]).Order]
            /\ (done = {} /\ rows # {})
                  => (GetOrder(id).code = 200 /\ GetOrder(id).order.ID = id)
            /\ (done = {} /\ rows = {}) => GetOrder(id).code = 404

\* the allow calls that lie inside the time window [a, b] and were answered allowed
AllowedIn(a, b) ==
    {i \in DOMAIN decisions :
        decisions[i].allowed /\ a <= decisions[i].ts /\ decisions[i].at <= b}

\* C21: for one key with capacity C and any sequence of allow calls, sequential or
\* concurrent, inside a time window W, at most C + floor(|W| / window) * C calls
\* are answered allowed.
C21_AllowedPerWindow ==
    \A a \in 0 .. MaxTime, b \in 0 .. MaxTime :
        a <= b => Cardinality(AllowedIn(a, b))
                     <= OrderLimit + ((b - a) \div Window) * OrderLimit

\* a call was denied, a later call was allowed after a refill, and a call ran its
\* script later than it read the time
C21_Witness ==
    /\ \E i \in DOMAIN decisions : ~decisions[i].allowed
    /\ \E i \in DOMAIN decisions : decisions[i].at > decisions[i].ts
    /\ Cardinality(AllowedIn(0, MaxTime)) > OrderLimit

\* the connection that takes the step
Stepping(c) == conn'[c] # conn[c]

\* C22: when the store call of AllowRequest errors, the middleware answers 500 and
\* aborts: the handler never runs, no order is enqueued, and the request is not
\* treated as admitted.
C22_FailClosed ==
    /\ [](\A c \in Conns :
            (conn[c].pc # "free" /\ conn[c].err)
                => (conn[c].pc = "done" /\ conn[c].code = 500 /\ ~conn[c].ran))
    /\ [][\A c \in Conns :
            (Stepping(c) /\ conn[c].pc = "script" /\ conn'[c].err)
                => (queue' = queue /\ decisions' = decisions)]_vars

C22_Witness ==
    /\ \E c \in Conns : conn[c].pc = "done" /\ conn[c].err /\ conn[c].route = "placeOrder"
                        /\ conn[c].body # Malformed
    /\ Len(queue) = 0

\* C23: within one window a client is admitted up to the limit of each endpoint
\* class, and requests to one class do not consume the budget of another: inside
\* the first window of a client a request is denied only when the limit of its
\* own class has been admitted.
C23_ClassBudgetsIndependent ==
    \A i \in DOMAIN decisions :
        (decisions[i].at < Window /\ ~decisions[i].allowed)
            => Cardinality({j \in 1 .. i - 1 :
                               /\ decisions[j].allowed
                               /\ decisions[j].class = decisions[i].class})
                  >= ClassLimit[decisions[i].class]

\* the headers the claim lets pass
Accepted(hdr) ==
    \/ hdr.xApiKey = ApiKey
    \/ hdr.xApiKey = "" /\ hdr.apiKey = ApiKey

C31_ItemPriceFromCatalog ==
    \A i \in Rows :
        queue[i].status = "completed"
            => LET order == ScanItem(queue[i]).Order IN
               \A k \in 1 .. Len(order.Items) :
                   order.Items[k].Price = Catalog[order.Items[k].ProductID]

\* C32: a queue item read back from the Queue Store carries a realized order only
\* when its status is completed; for pending, processing and failed items the order
\* is absent, so GET /order/{id} never answers 200 for an item that was not realized.
C32_OrderOnlyWhenCompleted ==
    \A i \in Rows :
        queue[i].status # "completed"
            => /\ GetOrderFromQueue(queue[i].id).val.Order = NilOrder
               /\ GetOrder(queue[i].id).code # 200

\* C33: the bucket refills at capacity per window whatever the caller does: if the
\* bucket of a key is empty at time t, the next allow call that is admitted or made
\* at a time >= t + window is admitted, even if denied calls were made in between.
C33_RefillDespiteDeniedCalls ==
    \A i \in DOMAIN decisions, j \in DOMAIN decisions :
        (/\ i < j
         /\ decisions[i].left = 0
         /\ decisions[j].ts >= decisions[i].at + Window
         /\ \A k \in (i + 1) .. (j - 1) : ~decisions[k].allowed)
            => decisions[j].allowed

\* C34: the discount decision for one order is taken against one coupon snapshot: a
\* refresh between the reads of applyDiscount never makes an order with a
\* recognized code fail with an invalid discount percentage.
C34_DiscountFromOneSnapshot ==
    (reader.pc = "done" /\ reader.op = "applyDiscount.GetDiscountPercentage")
        => (reader.pct > 0 /\ reader.pct <= 100)

\* codes of length 0, 7, 8, 9, 10 and 11; NEWYEAR26 is in no source
LengthCodes ==
    {"", "SHORT77", "SUMMER24", "SAVE10NOW", "NEWYEAR26", "BLACKFRI25", "ELEVENCHARS"}

\* C35: a code whose length is below 8 or above 10 is never reported valid by
\* ValidateCoupon, whatever the sources contain; a code of length 8, 9 or 10 other
\* than the demo codes is reported valid exactly when it is in the current snapshot.
C35_LengthGate ==
    \A c \in LengthCodes :
        IF Len(c) < 8 \/ Len(c) > 10 THEN ~ValidateCoupon(c)
        ELSE ValidateCoupon(c) <=> c \in DOMAIN validCoupons

\* a refresh published codes of length 8 and 10 from sources of which two also
\* held the code of length 11
C35_Witness ==
    /\ CycleEnded
    /\ {"SUMMER24", "BLACKFRI25"} \subseteq DOMAIN validCoupons
    /\ "NEWYEAR26" \notin DOMAIN validCoupons
    /\ Cardinality({f \in 1 .. Len(cycle.read) :
                       \E k \in 1 .. Len(cycle.read[f]) : cycle.read[f][k] = "ELEVENCHARS"}) >= 2

\* C36: starting from a full bucket, of any capacity + 1 requests of one client to
\* one endpoint class within one window at least one is answered 429, and every
\* 429 response carries X-RateLimit-Remaining = 0.
C36_DeniedWithRemainingZero ==
    clock < Window
        => /\ Len(decisions) > OrderLimit => \E i \in DOMAIN decisions : ~decisions[i].allowed
           /\ \A c \in Conns :
                (conn[c].pc = "done" /\ conn[c].code = 429)
                    => conn[c].remaining = ValidString("0")

\* C37: every refresh cycle terminates: the processing of each source ends, also on
\* a read error that persists, and the refresh finally releases the Coupon Store.
C37_RefreshTerminates == mutex.writer ~> ~mutex.writer

\* the realization attempts for row i that ended in failure: the calls of
\* CreateOrder for it that did not return an order
FailedAttempts(i) ==
    calls[i] - Cardinality({k \in 1 .. Len(orders) :
                               origin[k] = queue[i].id /\ orders[k].items > 0})

\* a worker is between the failure of CreateOrder and the UpdateItem that stores it
StoringFailure(i) ==
    \E w \in Workers : pc[w] = "fail" /\ Current(w).ID = queue[i].id

\* C38: with any number of workers, the stored retry_count of a queue item equals
\* the number of realization attempts for that item that ended in failure, and
\* never exceeds MAX_RETRIES = 3.
C38_RetryCountIsFailedAttempts ==
    \A i \in Rows :
        /\ queue[i].retry_count <= MaxRetries
        /\ (calls[i] < MaxCalls /\ ~StoringFailure(i))
              => queue[i].retry_count = FailedAttempts(i)

\* C39: authentication is checked before admission control: a request answered 401
\* never reaches the rate limiter and consumes no token of its client's bucket.
C39_AuthBeforeRateLimit ==
    /\ [](\A c \in Conns :
            /\ conn[c].pc \in {"limit", "script", "headers"} => Accepted(conn[c].hdr)
            /\ (conn[c].pc = "done" /\ conn[c].code = 401)
                  => (conn[c].remaining = NullString /\ ~conn[c].allowed))
    /\ [][bucket' # bucket
            => \E c \in Conns : Stepping(c) /\ conn[c].pc = "script"
                                /\ Accepted(conn[c].hdr)]_vars

\* a request was answered 401 while the bucket holds what the one admitted request
\* of the client left
C39_Witness ==
    /\ \E c \in Conns : conn[c].pc = "done" /\ conn[c].code = 401
    /\ Len(decisions) = 1
    /\ RateKey(ClientIP) \in DOMAIN bucket
    /\ bucket[RateKey(ClientIP)].tokens = OrderLimit - 1

\* C40: a POST /api/v1/order that carries the valid key in the api_key header and
\* a body with one item of quantity 2 (product id "test-1") is queued and answered
\* 202 Accepted, when the limiter admits it and the queue store takes the row.
C40_RoutingTestAccepted ==
    \A c \in Conns :
        (/\ conn[c].pc = "done"
         /\ conn[c].body = TestBody
         /\ conn[c].code \notin {429, 500})
            => (conn[c].code = 202 /\ Len(queue) > 0)

====
